---- MODULE Spec2Model ----
(***************************************************************************)
(* A model of scripts/foresignal_scrape.py: the positional decoder, the    *)
(* value-cell reader, the card extractor and the run of main().            *)
(*                                                                         *)
(* Strings are sequences of code points, so that ord(), strip(), prefix    *)
(* tests and the two regular expressions are computed, not assumed.        *)
(***************************************************************************)
EXTENDS Integers, Sequences, FiniteSets, TLC

VARIABLES
    pc,              \* position of the operation under study
    encoded,         \* decode_f: the argument
    decoded,         \* decode_f: the returned string
    value_el,        \* value_from_signal_value: the .signal-value element
    script_in_text,  \* whether Tag.get_text() of a cell yields <script> text
    value,           \* parse_signals line 103: value_from_signal_value(..) or ""
    html,            \* the fetched page: its .card.signal-card elements in order
    df,              \* parse_signals: the rows of the returned DataFrame
    now,             \* main: datetime.now(TZ) of the current run
    token,           \* os.getenv("TELEGRAM_BOT_TOKEN")
    chat_id,         \* os.getenv("TELEGRAM_CHAT_ID")
    fetches,         \* requests.get calls made by the current run
    sent,            \* requests.post calls made by the current run, in order
    error,           \* the exception that ended the current run, or NoError
    daily_csv,       \* data/foresignal_signals_<date>.csv by date
    daily_json,      \* data/foresignal_signals_<date>.json by date
    history_csv,     \* data/foresignal_signals_history.csv
    start            \* the three files as the current run found them

vars == << pc, encoded, decoded, value_el, script_in_text, value, html, df, now,
           token, chat_id, fetches, sent, error, daily_csv, daily_json,
           history_csv, start >>

(***************************************************************************)
(* Strings.                                                                *)
(***************************************************************************)

\* Python's None, where a string (a sequence of code points) is expected.
None == << -1 >>

\* The empty string.
Empty == << >>

\* str.isspace() for the code points the model uses (str.strip, \s).
IsSpace(c) == c \in {9, 10, 11, 12, 13, 28, 29, 30, 31, 32, 133, 160}

IsDigit(c) == c \in 48..57

RECURSIVE LStrip(_)
LStrip(s) ==
    IF s # Empty /\ IsSpace(Head(s)) THEN LStrip(Tail(s)) ELSE s

RECURSIVE RStrip(_)
RStrip(s) ==
    IF s # Empty /\ IsSpace(s[Len(s)]) THEN RStrip(SubSeq(s, 1, Len(s) - 1)) ELSE s

\* str.strip()
Strip(s) == RStrip(LStrip(s))

\* str.startswith
StartsWith(s, p) == Len(s) >= Len(p) /\ SubSeq(s, 1, Len(p)) = p

(***************************************************************************)
(* decode_f                                                                *)
(***************************************************************************)

\* MAP = "670429+-. 5,813"
MAP == << 54, 55, 48, 52, 50, 57, 43, 45, 46, 32, 53, 44, 56, 49, 51 >>

\* The loop of decode_f from 0-based position i on: out, before the strip.
RECURSIVE decode_from(_, _)
decode_from(enc, i) ==
    IF i >= Len(enc) THEN Empty
    ELSE LET idx == enc[i + 1] - 65 - i
         IN  (IF 0 <= idx /\ idx < Len(MAP) THEN << MAP[idx + 1] >> ELSE Empty)
             \o decode_from(enc, i + 1)

\* A decoder that forgets the position shift.
decode_f_noshift(enc) ==
    LET F[k \in 0..Len(enc)] ==
            IF k = 0 THEN Empty
            ELSE LET idx == enc[k] - 65
                 IN  F[k - 1] \o (IF 0 <= idx /\ idx < Len(MAP)
                                  THEN << MAP[idx + 1] >> ELSE Empty)
    IN  Strip(F[Len(enc)])

decode_f(enc) == Strip(decode_from(enc, 0))

\* Code points of encoded tokens: below 'A', in range at some positions only,
\* and giving the space of MAP at positions 0, 1 and 2 ('J', 'K', 'L').
DecodeAlphabet == {32, 65, 74, 75, 76, 79, 80}

MaxLen == 3

RECURSIVE SeqsUpTo(_, _)
SeqsUpTo(S, n) ==
    IF n = 0 THEN {Empty}
    ELSE LET shorter == SeqsUpTo(S, n - 1)
         IN  shorter \cup {Append(s, x) : s \in {t \in shorter : Len(t) = n - 1}, x \in S}

(***************************************************************************)
(* extract_encoded_from_script and value_from_signal_value                 *)
(***************************************************************************)

\* The first position >= j of s that holds no whitespace (Len(s) + 1 if none).
RECURSIVE SkipSpace(_, _)
SkipSpace(s, j) ==
    IF j <= Len(s) /\ IsSpace(s[j]) THEN SkipSpace(s, j + 1) ELSE j

\* The first position >= j of s that holds a quote ('), 0 if none.
RECURSIVE NextQuote(_, _)
NextQuote(s, j) ==
    IF j > Len(s) THEN 0
    ELSE IF s[j] = 39 THEN j ELSE NextQuote(s, j + 1)

\* A match of  f\(\s*'([^']+)'\s*\)  that starts at position i of s:
\* [ok, from, to, end], the token being s[from..to] and s[end] the ")".
FragmentAt(s, i) ==
    LET q1 == SkipSpace(s, i + 2)
        q2 == NextQuote(s, q1 + 1)
        r  == SkipSpace(s, q2 + 1)
        ok == /\ i + 1 <= Len(s) /\ s[i] = 102 /\ s[i + 1] = 40
              /\ q1 <= Len(s) /\ s[q1] = 39
              /\ q2 > q1 + 1
              /\ r <= Len(s) /\ s[r] = 41
    IN  [ok |-> ok, from |-> q1 + 1, to |-> q2 - 1, end |-> r]

\* re.search: the leftmost position >= i where the fragment matches, 0 if none.
RECURSIVE FragmentSearch(_, _)
FragmentSearch(s, i) ==
    IF i > Len(s) THEN 0
    ELSE IF FragmentAt(s, i).ok THEN i ELSE FragmentSearch(s, i + 1)

extract_encoded_from_script(script_text) ==
    IF script_text = Empty THEN None
    ELSE LET i == FragmentSearch(script_text, 1)
         IN  IF i = 0 THEN None
             ELSE LET m == FragmentAt(script_text, i)
                  IN  SubSeq(script_text, m.from, m.to)

\* re.sub(r"f\(\s*'[^']+'\s*\)\s*;?", "", s) from position i on.
RECURSIVE RemoveFragments(_, _)
RemoveFragments(s, i) ==
    IF i > Len(s) THEN Empty
    ELSE LET m == FragmentAt(s, i)
         IN  IF m.ok
             THEN LET r == SkipSpace(s, m.end + 1)
                      e == IF r <= Len(s) /\ s[r] = 59 THEN r + 1 ELSE r
                  IN  RemoveFragments(s, e)
             ELSE << s[i] >> \o RemoveFragments(s, i + 1)

\* re.sub(r"\s+", " ", s) from position i on.
RECURSIVE CollapseSpace(_, _)
CollapseSpace(s, i) ==
    IF i > Len(s) THEN Empty
    ELSE IF IsSpace(s[i]) THEN << 32 >> \o CollapseSpace(s, SkipSpace(s, i))
         ELSE << s[i] >> \o CollapseSpace(s, i + 1)

\* Whether NUM_RE = [-+]?\d+(?:\.\d+)? matches at position i of s.
NumStartsAt(s, i) ==
    /\ i <= Len(s)
    /\ \/ IsDigit(s[i])
       \/ s[i] \in {43, 45} /\ i + 1 <= Len(s) /\ IsDigit(s[i + 1])

\* The last position of the run of digits that begins at position i.
RECURSIVE DigitsEnd(_, _)
DigitsEnd(s, i) ==
    IF i + 1 <= Len(s) /\ IsDigit(s[i + 1]) THEN DigitsEnd(s, i + 1) ELSE i

\* The last position of the NUM_RE match that starts at position i.
NumEnd(s, i) ==
    LET d == DigitsEnd(s, IF IsDigit(s[i]) THEN i ELSE i + 1)
    IN  IF d + 2 <= Len(s) /\ s[d + 1] = 46 /\ IsDigit(s[d + 2])
        THEN DigitsEnd(s, d + 2) ELSE d

\* NUM_RE.search(s): the leftmost match, or None.
RECURSIVE NumSearch(_, _)
NumSearch(s, i) ==
    IF i > Len(s) THEN None
    ELSE IF NumStartsAt(s, i) THEN SubSeq(s, i, NumEnd(s, i))
         ELSE NumSearch(s, i + 1)

\* A .signal-value element is the sequence of its text nodes in document
\* order, each [script |-> whether it is the text of a <script>, s |-> text].

\* Python's None, where a .signal-value element is expected.
NoElement == << [script |-> FALSE, s |-> None] >>

\* value_el.find("script"): the first <script> node's position, 0 if none.
RECURSIVE FindScript(_, _)
FindScript(el, k) ==
    IF k > Len(el) THEN 0
    ELSE IF el[k].script THEN k ELSE FindScript(el, k + 1)

\* Tag.get_text(" ", strip=True): every string stripped, the empty ones
\* dropped, joined by " ". inc says whether <script> text is among them
\* (it depends on the installed BeautifulSoup).
RECURSIVE get_text(_, _, _)
get_text(el, k, inc) ==
    IF k > Len(el) THEN Empty
    ELSE LET piece == IF el[k].script /\ ~inc THEN Empty ELSE Strip(el[k].s)
             rest  == get_text(el, k + 1, inc)
         IN  IF piece = Empty THEN rest
             ELSE IF rest = Empty THEN piece
             ELSE piece \o << 32 >> \o rest

\* Lines 64-69: the plain numeric text of the cell.
fallback_value(el, inc) ==
    LET txt1 == Strip(CollapseSpace(get_text(el, 1, inc), 1))
        txt2 == Strip(RemoveFragments(txt1, 1))
    IN  NumSearch(txt2, 1)

\* A reader that looks for plain numeric text before the script.
value_from_signal_value_text_first(el, inc) ==
    IF el = NoElement THEN None
    ELSE LET k   == FindScript(el, 1)
             enc == IF k = 0 THEN None
                    ELSE extract_encoded_from_script(Strip(el[k].s))
             num == fallback_value(el, inc)
         IN  IF num # None THEN num
             ELSE IF enc # None /\ decode_f(enc) # Empty THEN decode_f(enc)
             ELSE None

value_from_signal_value(el, inc) ==
    IF el = NoElement THEN None
    ELSE LET k   == FindScript(el, 1)
             enc == IF k = 0 THEN None
                    ELSE extract_encoded_from_script(Strip(el[k].s))
         IN  IF enc # None /\ decode_f(enc) # Empty THEN decode_f(enc)
             ELSE fallback_value(el, inc)

\* Line 103: value_from_signal_value(value_el) or ""
OrEmpty(v) == IF v = None THEN Empty ELSE v

(***************************************************************************)
(* parse_signals                                                           *)
(***************************************************************************)

\* A card is [pair_el, status_el, rows]: the text of its header anchor and of
\* its status row (None when select_one finds nothing) and its .signal-row
\* elements in order, each [title_el, value_el] (None / NoElement likewise).

Sell_at         == << 83, 101, 108, 108, 32, 97, 116 >>
Take_profit     == << 84, 97, 107, 101, 32, 112, 114, 111, 102, 105, 116 >>
Stop_loss_at    == << 83, 116, 111, 112, 32, 108, 111, 115, 115, 32, 97, 116 >>
Buy_at          == << 66, 117, 121, 32, 97, 116 >>
Bought_at       == << 66, 111, 117, 103, 104, 116, 32, 97, 116 >>
Sold_at         == << 83, 111, 108, 100, 32, 97, 116 >>

\* Lines 85-94: the record of a card before its rows are read.
new_data(card) ==
    [ pair           |-> Strip(card.pair_el),
      status         |-> IF card.status_el = None THEN Empty
                         ELSE Strip(card.status_el),
      sell_at        |-> Empty,
      take_profit_at |-> Empty,
      stop_loss_at   |-> Empty,
      buy_at         |-> Empty,
      bought_at      |-> Empty,
      sold_at        |-> Empty ]

\* A dispatch that matches the take-profit title exactly.
dispatch_exact(data, title, v) ==
    IF title = Sell_at THEN [data EXCEPT !.sell_at = v]
    ELSE IF title = Take_profit THEN [data EXCEPT !.take_profit_at = v]
    ELSE IF title = Stop_loss_at THEN [data EXCEPT !.stop_loss_at = v]
    ELSE IF title = Buy_at THEN [data EXCEPT !.buy_at = v]
    ELSE IF title = Bought_at THEN [data EXCEPT !.bought_at = v]
    ELSE IF title = Sold_at THEN [data EXCEPT !.sold_at = v]
    ELSE data

\* Lines 105-116.
dispatch(data, title, v) ==
    IF title = Sell_at THEN [data EXCEPT !.sell_at = v]
    ELSE IF StartsWith(title, Take_profit) THEN [data EXCEPT !.take_profit_at = v]
    ELSE IF title = Stop_loss_at THEN [data EXCEPT !.stop_loss_at = v]
    ELSE IF title = Buy_at THEN [data EXCEPT !.buy_at = v]
    ELSE IF title = Bought_at THEN [data EXCEPT !.bought_at = v]
    ELSE IF title = Sold_at THEN [data EXCEPT !.sold_at = v]
    ELSE data

\* Lines 96-116: the rows of a card from the k-th on, applied to data.
RECURSIVE read_rows(_, _, _, _)
read_rows(data, rows, k, inc) ==
    IF k > Len(rows) THEN data
    ELSE LET row == rows[k]
         IN  IF row.title_el = None \/ row.value_el = NoElement
             THEN read_rows(data, rows, k + 1, inc)
             ELSE read_rows(dispatch(data, Strip(row.title_el),
                                     OrEmpty(value_from_signal_value(row.value_el, inc))),
                            rows, k + 1, inc)

\* A loop that stops at the first card without a pair anchor.
RECURSIVE card_rows_break(_, _, _)
card_rows_break(cards, k, inc) ==
    IF k > Len(cards) THEN << >>
    ELSE IF cards[k].pair_el = None THEN << >>
    ELSE << read_rows(new_data(cards[k]), cards[k].rows, 1, inc) >>
         \o card_rows_break(cards, k + 1, inc)

\* Lines 76-118: the list rows, from the k-th card on.
RECURSIVE card_rows(_, _, _)
card_rows(cards, k, inc) ==
    IF k > Len(cards) THEN << >>
    ELSE IF cards[k].pair_el = None THEN card_rows(cards, k + 1, inc)
    ELSE << read_rows(new_data(cards[k]), cards[k].rows, 1, inc) >>
         \o card_rows(cards, k + 1, inc)

\* Line 134: .astype(str).replace({"None": "", "nan": ""})
keep_string(v) ==
    IF v = << 78, 111, 110, 101 >> \/ v = << 110, 97, 110 >> THEN Empty ELSE v

\* Lines 130-134 on one row.
keep_strings(r) ==
    [r EXCEPT !.sell_at = keep_string(@), !.take_profit_at = keep_string(@),
              !.stop_loss_at = keep_string(@), !.buy_at = keep_string(@),
              !.bought_at = keep_string(@), !.sold_at = keep_string(@)]

\* Python's order of strings: by code point, a proper prefix first.
RECURSIVE StrLeq(_, _)
StrLeq(a, b) ==
    IF a = Empty THEN TRUE
    ELSE IF b = Empty THEN FALSE
    ELSE IF Head(a) # Head(b) THEN Head(a) < Head(b)
    ELSE StrLeq(Tail(a), Tail(b))

\* rows with r inserted after the last row whose pair is not greater.
RECURSIVE insert_by_pair(_, _)
insert_by_pair(rows, r) ==
    IF rows = << >> THEN << r >>
    ELSE IF StrLeq(rows[Len(rows)].pair, r.pair) THEN Append(rows, r)
    ELSE Append(insert_by_pair(SubSeq(rows, 1, Len(rows) - 1), r), rows[Len(rows)])

\* df.sort_values("pair", kind="stable") of the first k rows.
RECURSIVE sort_by_pair(_, _)
sort_by_pair(rows, k) ==
    IF k = 0 THEN << >> ELSE insert_by_pair(sort_by_pair(rows, k - 1), rows[k])

\* An extractor that sorts its rows by pair before it returns them.
parse_signals_sorted(cards, inc) ==
    LET rows == card_rows(cards, 1, inc)
        srt  == sort_by_pair(rows, Len(rows))
    IN  [k \in 1..Len(srt) |-> keep_strings(srt[k])]

parse_signals(cards, inc) ==
    LET rows == card_rows(cards, 1, inc)
    IN  [k \in 1..Len(rows) |-> keep_strings(rows[k])]

(***************************************************************************)
(* The states outside the operation under study.                           *)
(***************************************************************************)

\* A file is the sequence of its one content when it exists, empty otherwise.
Absent == << >>

File(content) == << content >>

Content(file) == file[1]

NoError == "none"

\* The dates a run can fall on; a day has TicksPerDay instants.
MaxNow == 3

TicksPerDay == 2

Dates == 0..(MaxNow \div TicksPerDay)

NoFiles == [ daily_csv   |-> [d \in Dates |-> Absent],
             daily_json  |-> [d \in Dates |-> Absent],
             history_csv |-> Absent ]

IdleDecoder == encoded = Empty /\ decoded = None

IdleReader == value_el = NoElement /\ value = None

IdleParser == html = << >> /\ df = << >>

IdleRun ==
    /\ now = 0 /\ token = None /\ chat_id = None
    /\ fetches = 0 /\ sent = << >> /\ error = NoError
    /\ daily_csv = NoFiles.daily_csv /\ daily_json = NoFiles.daily_json
    /\ history_csv = Absent /\ start = NoFiles

run_vars == << now, token, chat_id, fetches, sent, error, daily_csv,
               daily_json, history_csv, start >>

(***************************************************************************)
(* decode_f on every token over DecodeAlphabet of at most MaxLen places.   *)
(***************************************************************************)

InitDecode ==
    /\ pc = "call"
    /\ encoded \in SeqsUpTo(DecodeAlphabet, MaxLen)
    /\ decoded = None
    /\ script_in_text = FALSE
    /\ IdleReader /\ IdleParser /\ IdleRun

Decode ==
    /\ pc = "call"
    /\ decoded' = decode_f(encoded)
    /\ pc' = "return"
    /\ UNCHANGED << encoded, value_el, script_in_text, value, html, df, run_vars >>

NextDecode == Decode

SpecDecode == InitDecode /\ [][NextDecode]_vars

\* The 0-based positions of enc whose index into MAP is in range.
InRangePositions(enc) ==
    {i \in 0..(Len(enc) - 1) : enc[i + 1] - 65 - i \in 0..14}

\* The k-th smallest element of a finite set of integers.
KthOf(S, k) == CHOOSE p \in S : Cardinality({q \in S : q < p}) = k - 1

\* What the in-range positions contribute, in input order.
Contributions(enc) ==
    [k \in 1..Cardinality(InRangePositions(enc)) |->
        LET i == KthOf(InRangePositions(enc), k) IN MAP[enc[i + 1] - 65 - i + 1]]

\* t is s without its leading and trailing whitespace.
IsTrimOf(t, s) ==
    /\ t = Empty \/ (~IsSpace(t[1]) /\ ~IsSpace(t[Len(t)]))
    /\ \E a \in 0..Len(s) :
          /\ a + Len(t) <= Len(s)
          /\ \A j \in 1..Len(t) : s[a + j] = t[j]
          /\ \A j \in 1..Len(s) : (j <= a \/ j > a + Len(t)) => IsSpace(s[j])

\* C1: decode_f returns, for every token, the trimmed concatenation in input
\* order of MAP[codepoint - 65 - i] over the positions i whose index lies in
\* 0..14; the other positions contribute nothing.
C1_DecodeIsTrimmedInRangeConcatenation ==
    pc = "return" => IsTrimOf(decoded, Contributions(encoded))

\* A token with a position in range, one out of range and a space trimmed away.
C1_Witness ==
    /\ pc = "return"
    /\ decoded # Empty
    /\ InRangePositions(encoded) # {}
    /\ InRangePositions(encoded) # 0..(Len(encoded) - 1)
    /\ Len(decoded) < Cardinality(InRangePositions(encoded))

(***************************************************************************)
(* value_from_signal_value on cells of at most MaxNodes text nodes.        *)
(***************************************************************************)

MaxNodes == 2

\* Texts of a cell outside <script>: "1.2345", "-7", "abc", " +3.5 x 9",
\* "f('9') 4" and "x.5".
CellTexts ==
    { << 49, 46, 50, 51, 52, 53 >>,
      << 45, 55 >>,
      << 97, 98, 99 >>,
      << 32, 43, 51, 46, 53, 32, 120, 32, 57 >>,
      << 102, 40, 39, 57, 39, 41, 32, 52 >>,
      << 120, 46, 53 >> }

\* Texts of a <script>: "f('AC')" (67), "f( 'LRU' ) ;" (a comma), "f('z')"
\* (nothing in range), "f('JK')" (two spaces) and "write(1)".
ScriptTexts ==
    { << 102, 40, 39, 65, 67, 39, 41 >>,
      << 102, 40, 32, 39, 76, 82, 85, 39, 32, 41, 32, 59 >>,
      << 102, 40, 39, 122, 39, 41 >>,
      << 102, 40, 39, 74, 75, 39, 41 >>,
      << 119, 114, 105, 116, 101, 40, 49, 41 >> }

CellNodes ==
    {[script |-> FALSE, s |-> t] : t \in CellTexts}
        \cup {[script |-> TRUE, s |-> t] : t \in ScriptTexts}

InitValue ==
    /\ pc = "call"
    /\ value_el \in SeqsUpTo(CellNodes, MaxNodes) \cup {NoElement}
    /\ script_in_text \in BOOLEAN
    /\ value = None
    /\ IdleDecoder /\ IdleParser /\ IdleRun

ReadValue ==
    /\ pc = "call"
    /\ value' = OrEmpty(value_from_signal_value(value_el, script_in_text))
    /\ pc' = "return"
    /\ UNCHANGED << encoded, decoded, value_el, script_in_text, html, df, run_vars >>

NextValue == ReadValue

SpecValue == InitValue /\ [][NextValue]_vars

\* The token of the cell's f('<token>') script fragment, None without one.
ScriptToken(el) ==
    IF el = NoElement \/ \A k \in 1..Len(el) : ~el[k].script THEN None
    ELSE LET k == CHOOSE j \in 1..Len(el) :
                      el[j].script /\ \A h \in 1..(j - 1) : ~el[h].script
         IN  extract_encoded_from_script(Strip(el[k].s))

\* The cell's text with the f('...') fragments removed.
CleanText(el, inc) ==
    IF el = NoElement THEN Empty
    ELSE Strip(RemoveFragments(Strip(CollapseSpace(get_text(el, 1, inc), 1)), 1))

\* v has the shape [-+]?digits(.digits)?
IsSignedDecimal(v) ==
    LET b    == IF v # Empty /\ v[1] \in {43, 45} THEN Tail(v) ELSE v
        dots == {j \in 1..Len(b) : b[j] = 46}
    IN  /\ b # Empty
        /\ \A j \in 1..Len(b) : IsDigit(b[j]) \/ b[j] = 46
        /\ Cardinality(dots) <= 1
        /\ \A j \in dots : 1 < j /\ j < Len(b)

\* A signed decimal can begin at position q of t.
CanBegin(t, q) ==
    \/ IsDigit(t[q])
    \/ t[q] \in {43, 45} /\ q < Len(t) /\ IsDigit(t[q + 1])

\* v is the first (leftmost, longest) signed decimal of t.
IsFirstSignedDecimal(v, t) ==
    /\ IsSignedDecimal(v)
    /\ \E p \in 1..Len(t) :
          LET e == p + Len(v) - 1
          IN  /\ e <= Len(t)
              /\ SubSeq(t, p, e) = v
              /\ \A q \in 1..(p - 1) : ~CanBegin(t, q)
              /\ e < Len(t) => ~IsDigit(t[e + 1])
              /\ (e + 1 < Len(t) /\ \A j \in 1..Len(v) : v[j] # 46)
                    => ~(t[e + 1] = 46 /\ IsDigit(t[e + 2]))

MaxCards == 3

MaxRows == 2

EUR_USD == << 69, 85, 82, 47, 85, 83, 68 >>

GBP_USD == << 71, 66, 80, 47, 85, 83, 68 >>

Filled == << 70, 105, 108, 108, 101, 100 >>

\* A cell whose script decodes to "67" and one with the plain text "1.2345".
CellScript == << [script |-> TRUE, s |-> << 102, 40, 39, 65, 67, 39, 41 >>] >>

CellPlain == << [script |-> FALSE, s |-> << 49, 46, 50, 51, 52, 53 >>] >>

\* The titles of the rows: the six the code names, "Take profit (2R)",
\* " Buy at " (spaces around it), "Sell" and a row without a title.
RowTitles ==
    { None, Sell_at, Take_profit, Take_profit \o << 32, 40, 50, 82, 41 >>,
      Stop_loss_at, Buy_at, << 32 >> \o Buy_at \o << 32 >>, Bought_at, Sold_at,
      << 83, 101, 108, 108 >> }

SignalRows ==
    {[title_el |-> t, value_el |-> v] :
        t \in RowTitles, v \in {NoElement, CellScript, CellPlain}}

\* One card with every sequence of at most MaxRows rows.
OneCardPages ==
    {<< [pair_el |-> EUR_USD, status_el |-> Filled, rows |-> r] >> :
        r \in SeqsUpTo(SignalRows, MaxRows)}

\* Cards with and without a pair anchor and a status row.
PageCards ==
    {[pair_el |-> p, status_el |-> c[1], rows |-> c[2]] :
        p \in {None, EUR_USD, GBP_USD},
        c \in { << None, << >> >>,
                << Filled, << [title_el |-> Sell_at, value_el |-> CellScript] >> >> }}

InitParse ==
    /\ pc = "call"
    /\ html \in SeqsUpTo(PageCards, MaxCards) \cup OneCardPages
    /\ script_in_text \in BOOLEAN
    /\ df = << >>
    /\ IdleDecoder /\ IdleReader /\ IdleRun

Parse ==
    /\ pc = "call"
    /\ df' = parse_signals(html, script_in_text)
    /\ pc' = "return"
    /\ UNCHANGED << encoded, decoded, value_el, script_in_text, value, html, run_vars >>

NextParse == Parse

SpecParse == InitParse /\ [][NextParse]_vars

\* The positions of the cards of a page that have a pair anchor.
Anchored(cards) == {k \in 1..Len(cards) : cards[k].pair_el # None}

\* The cards of a page that have a pair anchor, in page order.
AnchoredCards(cards) ==
    [k \in 1..Cardinality(Anchored(cards)) |-> cards[KthOf(Anchored(cards), k)]]

\* seq with its elements at positions i and i + 1 exchanged.
SwapAt(seq, i) == [seq EXCEPT ![i] = seq[i + 1], ![i + 1] = seq[i]]

\* How many cards up to position i have a pair anchor.
AnchoredUpTo(cards, i) == Cardinality({k \in Anchored(cards) : k <= i})

C8_OneRecordPerAnchoredCard ==
    pc = "return" =>
        /\ Len(df) = Cardinality(Anchored(html))
        /\ df = parse_signals(AnchoredCards(html), script_in_text)
        /\ \A k \in 1..Len(df) :
              << df[k] >> = parse_signals(<< AnchoredCards(html)[k] >>, script_in_text)
        /\ html = << >> => df = << >>

\* A page with an anchorless card before a card that has its anchor.
C8_Witness ==
    /\ pc = "return"
    /\ df # << >>
    /\ \E i \in 1..(Len(html) - 1) :
          html[i].pair_el = None /\ html[i + 1].pair_el # None

\* The rows of a card that have both a title and a value element.
ReadableRows(card) ==
    {k \in 1..Len(card.rows) :
        card.rows[k].title_el # None /\ card.rows[k].value_el # NoElement}

\* Which field the title of a row names, "" when it names none.
FieldOf(title) ==
    LET t == Strip(title)
    IN  IF t = Sell_at THEN "sell_at"
        ELSE IF t = Stop_loss_at THEN "stop_loss_at"
        ELSE IF t = Buy_at THEN "buy_at"
        ELSE IF t = Bought_at THEN "bought_at"
        ELSE IF t = Sold_at THEN "sold_at"
        ELSE IF Len(t) >= 11 /\ SubSeq(t, 1, 11) = Take_profit THEN "take_profit_at"
        ELSE ""

PriceFields ==
    {"sell_at", "take_profit_at", "stop_loss_at", "buy_at", "bought_at", "sold_at"}

\* The value the field f of a card's record is to hold.
ExpectedField(card, f, inc) ==
    LET named == {k \in ReadableRows(card) : FieldOf(card.rows[k].title_el) = f}
    IN  IF named = {} THEN Empty
        ELSE LET last == CHOOSE k \in named : \A j \in named : j <= k
             IN  OrEmpty(value_from_signal_value(card.rows[last].value_el, inc))

\* The card without the rows whose title names no field.
NamedRowsOnly(card) ==
    [card EXCEPT !.rows =
        SelectSeq(card.rows,
                  LAMBDA r : r.title_el # None /\ FieldOf(r.title_el) # "")]

\* C9: each of the six price fields of a record is a string: the value of
\* the last row of the card whose title names the field (a prefix match for
\* "Take profit", an exact one for the others), "" when no row names it; rows
\* whose title names no field change nothing.
C9_PriceFieldsFromLastMatchingRow ==
    pc = "return" =>
        \A k \in 1..Len(df) :
            LET card == AnchoredCards(html)[k]
            IN  /\ PriceFields \subseteq DOMAIN df[k]
                /\ \A f \in PriceFields :
                      /\ df[k][f] # None
                      /\ df[k][f] = ExpectedField(card, f, script_in_text)
                /\ << df[k] >> = parse_signals(<< NamedRowsOnly(card) >>, script_in_text)

\* A card with two take-profit rows of different values, the last one titled
\* "Take profit (2R)", and a row whose title names no field.
C9_Witness ==
    /\ pc = "return"
    /\ Len(html) = 1 /\ Len(df) = 1
    /\ Len(html[1].rows) = 2
    /\ html[1].rows[1].title_el = Take_profit
    /\ html[1].rows[2].title_el = Take_profit \o << 32, 40, 50, 82, 41 >>
    /\ html[1].rows[1].value_el = CellPlain
    /\ html[1].rows[2].value_el = CellScript
    /\ df[1].take_profit_at = << 54, 55 >>
    /\ df[1].sell_at = Empty

(***************************************************************************)
(* build_json, telegram_send_json and the files main() writes.             *)
(***************************************************************************)

\* The columns of the DataFrame (lines 120-129), as header cells.
cols ==
    << << 112, 97, 105, 114 >>,
       << 115, 116, 97, 116, 117, 115 >>,
       << 115, 101, 108, 108, 95, 97, 116 >>,
       << 116, 97, 107, 101, 95, 112, 114, 111, 102, 105, 116, 95, 97, 116 >>,
       << 115, 116, 111, 112, 95, 108, 111, 115, 115, 95, 97, 116 >>,
       << 98, 117, 121, 95, 97, 116 >>,
       << 98, 111, 117, 103, 104, 116, 95, 97, 116 >>,
       << 115, 111, 108, 100, 95, 97, 116 >> >>

\* A row of the DataFrame as the cells of a CSV line.
csv_cells(r) ==
    << r.pair, r.status, r.sell_at, r.take_profit_at, r.stop_loss_at,
       r.buy_at, r.bought_at, r.sold_at >>

\* now.isoformat(timespec="seconds") as a CSV cell: the instant itself
\* stands for its text, which is PulledAtLen characters long.
pulled_at_cell(t) == << t >>

PulledAtLen == 25

\* now.strftime("%Y-%m-%d")
date_tag(t) == t \div TicksPerDay

\* Line 206: df.to_csv(daily_csv, index=False), the file's lines.
to_csv(rows) == << cols >> \o [k \in 1..Len(rows) |-> csv_cells(rows[k])]

\* Lines 209-210: df2, the rows with pulled_at as their first column.
history_lines(rows, t) ==
    [k \in 1..Len(rows) |-> << pulled_at_cell(t) >> \o csv_cells(rows[k])]

history_header == << << 112, 117, 108, 108, 101, 100, 95, 97, 116 >> >> \o cols

\* An append that writes the header on every run.
append_history_header_always(file, rows, t) ==
    File((IF file = Absent THEN << >> ELSE Content(file))
             \o << history_header >> \o history_lines(rows, t))

\* Lines 211-212: header = not history_csv.exists(); to_csv(mode="a").
append_history(file, rows, t) ==
    IF file = Absent
    THEN File(<< history_header >> \o history_lines(rows, t))
    ELSE File(Content(file) \o history_lines(rows, t))

\* Lines 139-152.
build_json(rows, t) ==
    [ source    |-> << 102, 111, 114, 101, 115, 105, 103, 110, 97, 108,
                       46, 99, 111, 109 >>,
      pulled_at |-> t,
      signals   |-> rows ]

\* A save that leaves the snapshot alone when its signals did not change.
write_daily_json_if_changed(files, t, payload) ==
    IF files[date_tag(t)] # Absent
          /\ Content(files[date_tag(t)]).signals = payload.signals
    THEN files
    ELSE [files EXCEPT ![date_tag(t)] = File(payload)]

\* Lines 216-217: daily_json.write_text(json.dumps(payload, ...)).
write_daily_json(files, t, payload) ==
    [files EXCEPT ![date_tag(t)] = File(payload)]

\* The characters json.dumps(ensure_ascii=False) writes for one character.
EscLen(c) ==
    IF c \in {34, 92, 8, 9, 10, 12, 13} THEN 2
    ELSE IF c < 32 THEN 6 ELSE 1

\* The length of json.dumps(str): two quotes and every character as written.
JsonStrLen(str) ==
    LET two == Cardinality({i \in 1..Len(str) : EscLen(str[i]) = 2})
        six == Cardinality({i \in 1..Len(str) : EscLen(str[i]) = 6})
    IN  2 + Len(str) + two + 5 * six

\* The compact JSON of one record: eight keys (65 characters of names, each
\* with two quotes and a colon), seven commas and two braces.
RecordLen(r) ==
    65 + 24 + 7 + 2
       + JsonStrLen(r.pair) + JsonStrLen(r.status) + JsonStrLen(r.sell_at)
       + JsonStrLen(r.take_profit_at) + JsonStrLen(r.stop_loss_at)
       + JsonStrLen(r.buy_at) + JsonStrLen(r.bought_at) + JsonStrLen(r.sold_at)

\* The records from the k-th on, with the commas between them.
RECURSIVE RecordsLen(_, _)
RecordsLen(rows, k) ==
    IF k > Len(rows) THEN 0
    ELSE RecordLen(rows[k]) + (IF k < Len(rows) THEN 1 ELSE 0) + RecordsLen(rows, k + 1)

\* Line 164: len(json.dumps(payload, ensure_ascii=False, separators=(",", ":")))
DumpsLen(payload) ==
    22 + 9 + 2 + 2
       + JsonStrLen(payload.source) + (PulledAtLen + 2)
       + 2 + RecordsLen(payload.signals, 1)

TextLimit == 3800

\* Line 176 and line 173: the compact JSON text as a message, as a document.
text_request(cid, payload) ==
    [method |-> "sendMessage", chat_id |-> cid, kind |-> "json",
     source |-> payload.source, pulled_at |-> payload.pulled_at,
     signals |-> payload.signals, signals_count |-> Len(payload.signals)]

document_request(cid, payload) ==
    [method |-> "sendDocument", chat_id |-> cid, kind |-> "json",
     source |-> payload.source, pulled_at |-> payload.pulled_at,
     signals |-> payload.signals, signals_count |-> Len(payload.signals)]

\* Lines 167-172: the summary as a message.
summary_request(cid, payload) ==
    [method |-> "sendMessage", chat_id |-> cid, kind |-> "summary",
     source |-> payload.source, pulled_at |-> payload.pulled_at,
     signals |-> << >>, signals_count |-> Len(payload.signals)]

\* not token (line 159): None and "" are false.
Unset(v) == v = None \/ v = Empty

\* A sender that needs only one of the two credentials.
telegram_send_json_either(payload, tok, cid, ok) ==
    IF Unset(tok) /\ Unset(cid)
    THEN [requests |-> << >>, raised |-> FALSE]
    ELSE IF DumpsLen(payload) > TextLimit
    THEN IF ok < 1
         THEN [requests |-> << summary_request(cid, payload) >>, raised |-> TRUE]
         ELSE [requests |-> << summary_request(cid, payload),
                               document_request(cid, payload) >>,
               raised |-> ok < 2]
    ELSE [requests |-> << text_request(cid, payload) >>, raised |-> ok < 1]

\* A sender whose limit is one character lower.
telegram_send_json_geq(payload, tok, cid, ok) ==
    IF Unset(tok) \/ Unset(cid)
    THEN [requests |-> << >>, raised |-> FALSE]
    ELSE IF DumpsLen(payload) >= TextLimit
    THEN IF ok < 1
         THEN [requests |-> << summary_request(cid, payload) >>, raised |-> TRUE]
         ELSE [requests |-> << summary_request(cid, payload),
                               document_request(cid, payload) >>,
               raised |-> ok < 2]
    ELSE [requests |-> << text_request(cid, payload) >>, raised |-> ok < 1]

\* Lines 155-190. ok is the number of POSTs of the call that get a success
\* status before one does not; raise_for_status() ends the call at that one.
\* The result is the POSTs made and whether the call raised.
telegram_send_json(payload, tok, cid, ok) ==
    IF Unset(tok) \/ Unset(cid)
    THEN [requests |-> << >>, raised |-> FALSE]
    ELSE IF DumpsLen(payload) > TextLimit
    THEN IF ok < 1
         THEN [requests |-> << summary_request(cid, payload) >>, raised |-> TRUE]
         ELSE [requests |-> << summary_request(cid, payload),
                               document_request(cid, payload) >>,
               raised |-> ok < 2]
    ELSE [requests |-> << text_request(cid, payload) >>, raised |-> ok < 1]

(***************************************************************************)
(* main(): runs of the script, one after the other.                        *)
(***************************************************************************)

BotToken == << 84 >>

ChatId == << 67 >>

\* The environments of a run: both credentials, or one unset or empty.
Environments ==
    { << BotToken, ChatId >>, << None, ChatId >>, << Empty, ChatId >>,
      << BotToken, None >>, << BotToken, Empty >> }

BigCards == 29

PlainCard == [pair_el |-> EUR_USD, status_el |-> None, rows |-> << >>]

\* i exclamation marks.
Padding(i) == [j \in 1..i |-> 33]

\* A page of BigCards cards whose payload is n characters long, by the
\* length of the status of its first card.
PageOfLength(n) ==
    LET plain == [k \in 1..BigCards |-> PlainCard]
        room  == n - DumpsLen(build_json(parse_signals(plain, FALSE), 0))
    IN  [plain EXCEPT ![1].status_el = Padding(IF room > 0 THEN room ELSE 0)]

\* The pages a run can fetch: no card, three cards of which one has no
\* anchor, and two pages whose payloads are TextLimit and TextLimit + 1 long.
RunPages ==
    { << >>,
      << [pair_el |-> GBP_USD, status_el |-> Filled,
          rows |-> << [title_el |-> Buy_at, value_el |-> CellScript] >>],
         [pair_el |-> None, status_el |-> None, rows |-> << >>],
         [pair_el |-> EUR_USD, status_el |-> None,
          rows |-> << [title_el |-> Sell_at, value_el |-> CellPlain] >>] >>,
      PageOfLength(TextLimit),
      PageOfLength(TextLimit + 1) }

Init ==
    /\ pc = "idle"
    /\ script_in_text \in BOOLEAN
    /\ IdleDecoder /\ IdleReader /\ IdleParser /\ IdleRun

\* Lines 194-199: a run begins at instant t with the environment env.
main_begin(t, env) ==
    /\ pc \in {"idle", "exited"}
    /\ t > now
    /\ now' = t
    /\ token' = env[1]
    /\ chat_id' = env[2]
    /\ fetches' = 0
    /\ sent' = << >>
    /\ error' = NoError
    /\ html' = << >>
    /\ df' = << >>
    /\ start' = [daily_csv |-> daily_csv, daily_json |-> daily_json,
                 history_csv |-> history_csv]
    /\ pc' = "fetch"
    /\ UNCHANGED << encoded, decoded, value_el, script_in_text, value,
                    daily_csv, daily_json, history_csv >>

\* A run that asks for the page again when the request fails.
main_fetch_retries ==
    /\ pc = "fetch"
    /\ fetches' = fetches + 2
    /\ error' = "fetch"
    /\ pc' = "exited"
    /\ UNCHANGED << encoded, decoded, value_el, script_in_text, value, html, df,
                    now, token, chat_id, sent, daily_csv, daily_json,
                    history_csv, start >>

\* Line 201 when fetch_html raises (lines 30-31): the exception leaves main.
main_fetch_raises ==
    /\ pc = "fetch"
    /\ fetches' = fetches + 1
    /\ error' = "fetch"
    /\ pc' = "exited"
    /\ UNCHANGED << encoded, decoded, value_el, script_in_text, value, html, df,
                    now, token, chat_id, sent, daily_csv, daily_json,
                    history_csv, start >>

\* Lines 201-225 when fetch_html returns the page h.
main_fetched(h, ok) ==
    /\ pc = "fetch"
    /\ fetches' = fetches + 1
    /\ html' = h
    /\ LET rows    == parse_signals(h, script_in_text)
           payload == build_json(rows, now)
           told    == telegram_send_json(payload, token, chat_id, ok)
       IN  /\ df' = rows
           /\ daily_csv' = [daily_csv EXCEPT ![date_tag(now)] = File(to_csv(rows))]
           /\ history_csv' = append_history(history_csv, rows, now)
           /\ daily_json' = write_daily_json(daily_json, now, payload)
           /\ sent' = told.requests
           /\ error' = IF told.raised THEN "notify" ELSE NoError
    /\ pc' = "exited"
    /\ UNCHANGED << encoded, decoded, value_el, script_in_text, value, now,
                    token, chat_id, start >>

Next ==
    \/ \E t \in 1..MaxNow, env \in Environments : main_begin(t, env)
    \/ main_fetch_raises
    \/ \E h \in RunPages, ok \in 0..2 : main_fetched(h, ok)

Spec == Init /\ [][Next]_vars

\* The signal set of the snapshot the current run found, the latest one
\* written, as a file: Absent on a first run.
PriorState ==
    LET written == {d \in Dates : start.daily_json[d] # Absent}
    IN  IF written = {} THEN Absent
        ELSE LET d == CHOOSE e \in written :
                          \A g \in written :
                              Content(start.daily_json[g]).pulled_at
                                  <= Content(start.daily_json[e]).pulled_at
             IN  File(Content(start.daily_json[d]).signals)

\* The run ended, and its fetch returned a page.
Fetched == pc = "exited" /\ error # "fetch"

\* The run wrote its JSON snapshot (pulled_at tells the runs apart).
WroteSnapshot == daily_json[date_tag(now)] # start.daily_json[date_tag(now)]

Configured == ~Unset(token) /\ ~Unset(chat_id)

C4_FetchFailureWritesNothing ==
    (pc = "exited" /\ error = "fetch") =>
        /\ fetches = 1
        /\ daily_csv = start.daily_csv
        /\ daily_json = start.daily_json
        /\ history_csv = start.history_csv
        /\ sent = << >>

\* A failed fetch in a run that follows one that left files behind.
C4_Witness ==
    /\ pc = "exited" /\ error = "fetch"
    /\ Configured
    /\ start.history_csv # Absent

\* C5: with a credential unset or empty, a run whose fetch succeeded sends
\* no request, still writes its snapshot, and ends without failure.
C5_UnconfiguredRunSkipsNotification ==
    (Fetched /\ ~Configured) =>
        /\ sent = << >>
        /\ error = NoError
        /\ daily_json[date_tag(now)] = File(build_json(df, now))
        /\ daily_csv[date_tag(now)] = File(to_csv(df))

\* A run with a token and an empty chat id that extracted records.
C5_Witness ==
    /\ Fetched
    /\ token = BotToken /\ chat_id = Empty
    /\ df # << >>
    /\ sent = << >>

\* What the run has to tell: its payload, and the requests that carry it.
RunPayload == build_json(df, now)

ExpectedRequests ==
    IF DumpsLen(RunPayload) <= 3800
    THEN << text_request(chat_id, RunPayload) >>
    ELSE << summary_request(chat_id, RunPayload), document_request(chat_id, RunPayload) >>

LinesOf(file) == IF file = Absent THEN << >> ELSE Content(file)

\* C7: the history table only grows, and its header is written once: a run
\* writes the header only when it finds no history file, a run whose fetch
\* succeeded appends one line per extracted record stamped with its own
\* pulled_at, and the lines of earlier runs stay as they were.
C7_HistoryAppendOnlyHeaderOnce ==
    /\ pc = "exited" =>
          LET old == LinesOf(start.history_csv)
              new == LinesOf(history_csv)
              add == SubSeq(new, Len(old) + 1, Len(new))
          IN  /\ Len(new) >= Len(old)
              /\ SubSeq(new, 1, Len(old)) = old
              /\ error = "fetch" => history_csv = start.history_csv
              /\ (error # "fetch" /\ start.history_csv = Absent) =>
                    /\ history_csv # Absent
                    /\ add = << history_header >> \o history_lines(df, now)
              /\ (error # "fetch" /\ start.history_csv # Absent) =>
                    add = history_lines(df, now)
    /\ history_csv # Absent =>
          /\ LinesOf(history_csv)[1] = history_header
          /\ \A k \in 2..Len(LinesOf(history_csv)) :
                /\ LinesOf(history_csv)[k] # history_header
                /\ Len(LinesOf(history_csv)[k]) = 9

\* A later run that appended its records below those of an earlier run.
C7_Witness ==
    /\ Fetched
    /\ start.history_csv # Absent
    /\ Len(LinesOf(start.history_csv)) > 1
    /\ df # << >>
    /\ Len(LinesOf(history_csv)) = Len(LinesOf(start.history_csv)) + Len(df)

====
